---- MODULE Spec2Model ----
(***************************************************************************)
(* Tic Tac Toe (tic_tac_toe_frontend/src/App.js).                          *)
(*                                                                         *)
(* The React component App owns two state hooks, squares and xIsNext.      *)
(* Each render of App captures the hook values in the closure of the       *)
(* handlers it hands to the board (handleSquareClick, resetGame) together  *)
(* with the derived values winner, line and isDraw.  A click is a discrete *)
(* event: the handler runs against the closure of the last render, and the *)
(* state it sets is rendered before the next event is dispatched.          *)
(***************************************************************************)
EXTENDS Integers, Sequences, FiniteSets

VARIABLES
    squares,    \* hook state: the board, a JS array (index -> value)
    xIsNext,    \* hook state: TRUE when X places the next mark
    rendered,   \* values captured by the last render of App
    last,       \* history: the last request handled and the path it took
    moves       \* history: moves accepted since construction or the last reset

vars == <<squares, xIsNext, rendered, last, moves>>

\* ------------------------------------------------------------------ values

Null == "null"
Undefined == "undefined"
Marks == {"X", "O"}
Cells == 0..8

\* JS truthiness of a cell value: null and undefined are falsy, 'X'/'O' truthy
Truthy(v) == v \in Marks

\* squares[i]: reading a missing element or property yields undefined
Get(sq, i) == IF i \in DOMAIN sq THEN sq[i] ELSE Undefined

\* squares.length: the array elements are the non-negative keys 0..length-1
Length(sq) == Cardinality({k \in DOMAIN sq : k >= 0})

\* squares.slice(): a fresh array holding the elements 0..length-1 only
\* (a non-index property such as "-1" is not copied)
Slice(sq) == [k \in {j \in DOMAIN sq : j >= 0} |-> sq[k]]

\* next[i] = v on a JS array: an index past the end grows the array (the
\* cells in between read undefined), a negative key becomes a property
Assign(sq, i, v) ==
    IF i >= 0
    THEN [k \in (DOMAIN sq) \cup (0..i) |->
            IF k = i THEN v ELSE IF k \in DOMAIN sq THEN sq[k] ELSE Undefined]
    ELSE [k \in (DOMAIN sq) \cup {i} |-> IF k = i THEN v ELSE sq[k]]

\* Array(9).fill(null)
EmptyBoard == [k \in Cells |-> Null]

\* ------------------------------------------------------------ calculateWinner

\* LINES with the diagonals enumerated before the rows and columns
LINES_DiagonalsFirst ==
    << <<0, 4, 8>>, <<2, 4, 6>>, <<0, 1, 2>>, <<3, 4, 5>>,
       <<6, 7, 8>>, <<0, 3, 6>>, <<1, 4, 7>>, <<2, 5, 8>> >>

LINES == << <<0, 1, 2>>, <<3, 4, 5>>, <<6, 7, 8>>,
            <<0, 3, 6>>, <<1, 4, 7>>, <<2, 5, 8>>,
            <<0, 4, 8>>, <<2, 4, 6>> >>

\* one iteration of the for-of loop over LINES, from entry k on
RECURSIVE scanLines(_, _)
scanLines(sq, k) ==
    IF k > Len(LINES)
    THEN [winner |-> Null, line |-> <<>>]
    ELSE LET a == LINES[k][1]
             b == LINES[k][2]
             c == LINES[k][3]
         IN  IF Truthy(Get(sq, a)) /\ Get(sq, a) = Get(sq, b) /\ Get(sq, a) = Get(sq, c)
             THEN [winner |-> Get(sq, a), line |-> <<a, b, c>>]
             ELSE scanLines(sq, k + 1)

\* calculateWinner without the "squares[a] &&" test: three nulls match
RECURSIVE scanLines_NoTruthy(_, _)
scanLines_NoTruthy(sq, k) ==
    IF k > Len(LINES)
    THEN [winner |-> Null, line |-> <<>>]
    ELSE LET a == LINES[k][1]
             b == LINES[k][2]
             c == LINES[k][3]
         IN  IF Get(sq, a) = Get(sq, b) /\ Get(sq, a) = Get(sq, c)
             THEN [winner |-> Get(sq, a), line |-> <<a, b, c>>]
             ELSE scanLines_NoTruthy(sq, k + 1)

calculateWinner_NoTruthy(sq) == scanLines_NoTruthy(sq, 1)

calculateWinner(sq) == scanLines(sq, 1)

\* --------------------------------------------------------------------- App

\* squares.every((s) => s !== null)
everyNotNull(sq) == \A k \in 0..(Length(sq) - 1) : Get(sq, k) # Null

\* isDraw without the every() test of the cells
isDraw_NoEvery(sq) == ~Truthy(calculateWinner(sq).winner)

isDraw(sq) == ~Truthy(calculateWinner(sq).winner) /\ everyNotNull(sq)

\* One render of App: the hook values and what is derived from them
App(sq, x) ==
    [squares |-> sq,
     xIsNext |-> x,
     winner  |-> calculateWinner(sq).winner,
     line    |-> calculateWinner(sq).line,
     isDraw  |-> isDraw(sq)]

\* The render React performs after a handler set state, before the next event
\* is dispatched; RenderStale leaves the closure of the previous render in use
RenderStale(sq, x) == rendered

Render(sq, x) == App(sq, x)

\* The verdict a render shows: winner first, then draw, else ongoing
Verdict(r) ==
    IF Truthy(r.winner) THEN "Win"
    ELSE IF r.isDraw THEN "Draw"
    ELSE "Ongoing"

\* status without the isDraw branch
status_NoDraw(r) ==
    IF Truthy(r.winner) THEN "Winner: " \o r.winner
    ELSE "Next: " \o (IF r.xIsNext THEN "X" ELSE "O")

\* The status string of a render
status(r) ==
    IF Truthy(r.winner) THEN "Winner: " \o r.winner
    ELSE IF r.isDraw THEN "Draw"
    ELSE "Next: " \o (IF r.xIsNext THEN "X" ELSE "O")

\* Board.renderSquare: square i is highlighted when winningLine includes it
isWinning(r, i) == \E j \in 1..Len(r.line) : r.line[j] = i

\* handleSquareClick without the "|| winner" test
handleSquareClick_NoWinnerGuard(r, i) ==
    IF Truthy(Get(r.squares, i))
    THEN [squares |-> squares, xIsNext |-> xIsNext, outcome |-> "ignored",
          closure |-> r.squares]
    ELSE LET next == Assign(Slice(r.squares), i, IF r.xIsNext THEN "X" ELSE "O")
         IN  [squares |-> next, xIsNext |-> ~r.xIsNext, outcome |-> "accepted",
              closure |-> r.squares]

\* handleSquareClick without the "squares[i]" test
handleSquareClick_NoOccupiedGuard(r, i) ==
    IF Truthy(r.winner)
    THEN [squares |-> squares, xIsNext |-> xIsNext, outcome |-> "ignored",
          closure |-> r.squares]
    ELSE LET next == Assign(Slice(r.squares), i, IF r.xIsNext THEN "X" ELSE "O")
         IN  [squares |-> next, xIsNext |-> ~r.xIsNext, outcome |-> "accepted",
              closure |-> r.squares]

\* handleSquareClick without setXIsNext(!xIsNext)
handleSquareClick_NoFlip(r, i) ==
    IF Truthy(Get(r.squares, i)) \/ Truthy(r.winner)
    THEN [squares |-> squares, xIsNext |-> xIsNext, outcome |-> "ignored",
          closure |-> r.squares]
    ELSE LET next == Assign(Slice(r.squares), i, IF r.xIsNext THEN "X" ELSE "O")
         IN  [squares |-> next, xIsNext |-> r.xIsNext, outcome |-> "accepted",
              closure |-> r.squares]

\* handleSquareClick flipping the turn only when the game goes on
handleSquareClick_FlipIfOngoing(r, i) ==
    IF Truthy(Get(r.squares, i)) \/ Truthy(r.winner)
    THEN [squares |-> squares, xIsNext |-> xIsNext, outcome |-> "ignored",
          closure |-> r.squares]
    ELSE LET next == Assign(Slice(r.squares), i, IF r.xIsNext THEN "X" ELSE "O")
         IN  [squares |-> next,
              xIsNext |-> IF Verdict(App(next, r.xIsNext)) = "Ongoing"
                          THEN ~r.xIsNext ELSE r.xIsNext,
              outcome |-> "accepted",
              closure |-> r.squares]

\* handleSquareClick writing next[i] into squares itself, without slice()
handleSquareClick_InPlace(r, i) ==
    IF Truthy(Get(r.squares, i)) \/ Truthy(r.winner)
    THEN [squares |-> squares, xIsNext |-> xIsNext, outcome |-> "ignored",
          closure |-> r.squares]
    ELSE LET next == Assign(r.squares, i, IF r.xIsNext THEN "X" ELSE "O")
         IN  [squares |-> next, xIsNext |-> ~r.xIsNext, outcome |-> "accepted",
              closure |-> next]

\* handleSquareClick(i) run in the closure of render r: the hook values it
\* sets, whether it returned early ("ignored") or set state ("accepted"), and
\* what the array the render holds (r.squares) contains when it returns
handleSquareClick(r, i) ==
    IF Truthy(Get(r.squares, i)) \/ Truthy(r.winner)
    THEN [squares |-> squares, xIsNext |-> xIsNext, outcome |-> "ignored",
          closure |-> r.squares]
    ELSE LET next == Assign(Slice(r.squares), i, IF r.xIsNext THEN "X" ELSE "O")
         IN  [squares |-> next, xIsNext |-> ~r.xIsNext, outcome |-> "accepted",
              closure |-> r.squares]

\* resetGame without setXIsNext(true)
resetGame_KeepTurn ==
    [squares |-> EmptyBoard, xIsNext |-> xIsNext]

\* resetGame(): the hook values it sets
resetGame ==
    [squares |-> EmptyBoard, xIsNext |-> TRUE]

\* ----------------------------------------------------------------- actions

Init ==
    /\ squares = EmptyBoard
    /\ xIsNext = TRUE
    /\ rendered = App(EmptyBoard, TRUE)
    /\ last = [op |-> "init", i |-> 0, outcome |-> "accepted"]
    /\ moves = 0

\* A click on square i: the handler, then the render of the state it set
Click(i) ==
    LET h == handleSquareClick(rendered, i)
    IN  /\ squares' = h.squares
        /\ xIsNext' = h.xIsNext
        /\ rendered' = IF h.outcome = "accepted"
                       THEN Render(squares', xIsNext')
                       ELSE rendered
        /\ last' = [op |-> "move", i |-> i, outcome |-> h.outcome]
        /\ moves' = IF h.outcome = "accepted" THEN moves + 1 ELSE moves

\* A click on Reset Game: the handler, then the render of the state it set
Reset ==
    /\ squares' = resetGame.squares
    /\ xIsNext' = resetGame.xIsNext
    /\ rendered' = Render(resetGame.squares, resetGame.xIsNext)
    /\ last' = [op |-> "reset", i |-> 0, outcome |-> "accepted"]
    /\ moves' = 0

\* The board renders squares 0..8 only, so these are the clicks the UI makes
Next ==
    \/ \E i \in Cells : Click(i)
    \/ Reset

Spec == Init /\ [][Next]_vars

\* Any of the 3^9 boards handed to App, whoever's turn it is: the boards
\* calculateWinner and isDraw are total over, reachable by play or not
InitEval ==
    /\ squares \in [Cells -> Marks \cup {Null}]
    /\ xIsNext \in BOOLEAN
    /\ rendered = App(squares, xIsNext)
    /\ last = [op |-> "init", i |-> 0, outcome |-> "accepted"]
    /\ moves = 0

\* App rendered again over the same hook values (useMemo recomputes)
Rerender ==
    /\ rendered' = Render(squares, xIsNext)
    /\ last' = [op |-> "render", i |-> 0, outcome |-> "accepted"]
    /\ UNCHANGED <<squares, xIsNext, moves>>

NextEval == Rerender

SpecEval == InitEval /\ [][NextEval]_vars

\* handleSquareClick called with an index the board does not render, in
\* games of at most MaxMovesAny accepted moves
MaxOut == 1
MaxMovesAny == 5
OutOfRange == {-k : k \in 1..MaxOut} \cup {8 + k : k \in 1..MaxOut}

NextAny ==
    \/ \E i \in Cells : moves < MaxMovesAny /\ Click(i)
    \/ \E i \in OutOfRange : moves < MaxMovesAny /\ Click(i)
    \/ Reset

SpecAny == Init /\ [][NextAny]_vars

\* A won game: the state the clicks 0, 4, 1, 3, 2 leave (X on 0,1,2 and O on
\* 3,4, five turn flips), from which play goes on with clicks and resets
WonBoard == [k \in Cells |-> IF k \in {0, 1, 2} THEN "X"
                             ELSE IF k \in {3, 4} THEN "O" ELSE Null]

InitAfterWin ==
    /\ squares = WonBoard
    /\ xIsNext = FALSE
    /\ rendered = App(WonBoard, FALSE)
    /\ last = [op |-> "move", i |-> 2, outcome |-> "accepted"]
    /\ moves = 5

SpecAfterWin == InitAfterWin /\ [][Next]_vars

\* The players keep playing: in a game that is not over, a click on an empty
\* square
ClickEmpty ==
    /\ Verdict(rendered) = "Ongoing"
    /\ \E i \in Cells : squares[i] = Null /\ Click(i)

SpecFair == Init /\ [][Next]_vars /\ WF_vars(ClickEmpty)

\* ------------------------------------------------------------------ claims

\* The eight Lines in the enumeration order the specification fixes
SpecLines ==
    << <<0, 1, 2>>, <<3, 4, 5>>, <<6, 7, 8>>,
       <<0, 3, 6>>, <<1, 4, 7>>, <<2, 5, 8>>,
       <<0, 4, 8>>, <<2, 4, 6>> >>

\* Line k has three equal non-Empty cells on board sq
Complete(sq, k) ==
    /\ sq[SpecLines[k][1]] \in Marks
    /\ sq[SpecLines[k][1]] = sq[SpecLines[k][2]]
    /\ sq[SpecLines[k][1]] = sq[SpecLines[k][3]]

CompleteLines(sq) == {k \in 1..8 : Complete(sq, k)}

Full(sq) == \A k \in Cells : sq[k] \in Marks

\* this step handled a requestMove / handled it by placing a mark
MoveStep == last'.op = "move"
AcceptedStep == last'.op = "move" /\ last'.outcome = "accepted"

\* C1: once the verdict is Win or Draw, a requestMove(i), i in 0..8, changes
\* neither the board, the turn nor the verdict, and the only step that leaves
\* Won or Drawn is reset().
C1_TerminalLock ==
    [][Verdict(rendered) # "Ongoing" =>
          IF last'.op = "reset"
          THEN Verdict(rendered') = "Ongoing"
          ELSE /\ squares' = squares
               /\ xIsNext' = xIsNext
               /\ Verdict(rendered') = Verdict(rendered)]_vars

\* a click on an empty cell of a won game was ignored
C1_Witness ==
    /\ Verdict(rendered) = "Win"
    /\ last = [op |-> "move", i |-> last.i, outcome |-> "ignored"]
    /\ squares[last.i] = Null

\* C2: on every board with a complete Line, calculateWinner returns the mark
\* and exactly the index triple of the first complete Line in the fixed
\* enumeration order, and the verdict is Win also when the board is full.
C2_FirstLineWins ==
    CompleteLines(squares) # {} =>
        LET f == CHOOSE k \in CompleteLines(squares) :
                     \A j \in CompleteLines(squares) : k <= j
        IN  /\ rendered.winner = squares[SpecLines[f][1]]
            /\ rendered.line = SpecLines[f]
            /\ Verdict(rendered) = "Win"

\* a full board with several complete Lines, of both marks, shows Win
C2_Witness ==
    /\ Full(squares)
    /\ Cardinality(CompleteLines(squares)) >= 2
    /\ \E j, k \in CompleteLines(squares) :
           squares[SpecLines[j][1]] # squares[SpecLines[k][1]]
    /\ last.op = "render"
    /\ Verdict(rendered) = "Win"

\* C3: on every board with no complete Line, calculateWinner returns winner
\* null and an empty line, isDraw is true exactly when the board is full, and
\* the verdict is Draw on a full board and Ongoing otherwise.
C3_DrawOrOngoing ==
    CompleteLines(squares) = {} =>
        /\ rendered.winner = Null
        /\ rendered.line = <<>>
        /\ rendered.isDraw <=> Full(squares)
        /\ Verdict(rendered) = IF Full(squares) THEN "Draw" ELSE "Ongoing"

\* a full board with no complete Line shows Draw
C3_Witness ==
    /\ CompleteLines(squares) = {}
    /\ Full(squares)
    /\ last.op = "render"
    /\ Verdict(rendered) = "Draw"

\* C4: a requestMove on an occupied cell is ignored: it leaves board, turn,
\* verdict and the count of accepted moves as they were, however often it is
\* repeated.
C4_OccupiedIsNoOp ==
    [][(MoveStep /\ squares[last'.i] \in Marks) =>
          /\ last'.outcome = "ignored"
          /\ UNCHANGED <<squares, xIsNext, rendered, moves>>]_vars

\* requestMove(0) twice: the second is ignored, X on cell 0 only, O to move
C4_Witness ==
    /\ last = [op |-> "move", i |-> 0, outcome |-> "ignored"]
    /\ squares = [EmptyBoard EXCEPT ![0] = "X"]
    /\ xIsNext = FALSE
    /\ moves = 1

\* C5: after N accepted moves since construction or a reset, with no winner,
\* the turn is X when N is even and O when N is odd; the k-th accepted move
\* places X when k is odd and O when k is even.
C5_TurnAlternation ==
    /\ [](rendered.winner = Null => (xIsNext <=> moves % 2 = 0))
    /\ [][AcceptedStep =>
            squares'[last'.i] = IF moves' % 2 = 1 THEN "X" ELSE "O"]_vars

\* four moves accepted after a reset, no winner, X to move
C5_Witness ==
    /\ moves = 4
    /\ rendered.winner = Null
    /\ xIsNext = TRUE
    /\ last.outcome = "accepted"
    /\ squares[last.i] = "O"

\* C6: reset() from any reachable state yields the initial GameState: nine
\* Empty cells, X to move, verdict Ongoing.
C6_ResetIsInitial ==
    [][last'.op = "reset" =>
          /\ squares' = [k \in 0..8 |-> Null]
          /\ xIsNext' = TRUE
          /\ Verdict(rendered') = "Ongoing"
          /\ moves' = 0]_vars

\* a reset has been handled
C6_Witness ==
    /\ last.op = "reset"
    /\ squares = [k \in 0..8 |-> Null]
    /\ xIsNext = TRUE

\* C7: a requestMove with an index outside 0..8 places no mark, leaves the
\* board's size and contents alone and does not switch the turn.
C7_OutOfRangeRejected ==
    [][(MoveStep /\ last'.i \notin Cells) =>
          /\ squares' = squares
          /\ xIsNext' = xIsNext]_vars

\* C8 as stated: an accepted move that produces Win or Draw leaves the turn
\* as it was before the move.
C8_TurnKeptWhenFinished ==
    [][(AcceptedStep /\ Verdict(rendered') # "Ongoing") =>
          xIsNext' = xIsNext]_vars

\* C8 amended: every accepted move flips the turn, also the move that
\* produces Win or Draw.
C8_TurnAlwaysFlips ==
    [][AcceptedStep => xIsNext' = ~xIsNext]_vars

\* X placed the winning mark and the turn flag says O is next
C8_Witness ==
    /\ Verdict(rendered) = "Win"
    /\ rendered.winner = "X"
    /\ last.outcome = "accepted"
    /\ squares[last.i] = "X"
    /\ xIsNext = FALSE

\* C9 as stated: in every state reachable by requestMove and reset at most
\* one of the eight Lines is complete.
C9_AtMostOneLine ==
    Cardinality(CompleteLines(squares)) <= 1

\* C9 amended: in every reachable state at most two Lines are complete and
\* all complete Lines hold the same mark, so the tie-break picks which Line
\* is reported and never which mark wins.
C9_AtMostTwoLinesOneMark ==
    /\ Cardinality(CompleteLines(squares)) <= 2
    /\ \A j, k \in CompleteLines(squares) :
           squares[SpecLines[j][1]] = squares[SpecLines[k][1]]
    /\ CompleteLines(squares) # {} =>
           rendered.line = SpecLines[CHOOSE k \in CompleteLines(squares) :
                                        \A j \in CompleteLines(squares) : k <= j]

\* legal play completed two Lines with one move
C9_Witness ==
    /\ Cardinality(CompleteLines(squares)) = 2
    /\ last.outcome = "accepted"
    /\ Verdict(rendered) = "Win"

\* C10: every request is handled against the render of the state all earlier
\* requests left: a request for an empty cell of a game that is not won is
\* accepted and places the mark of the current turn, and two requests
\* accepted one after the other for distinct cells both leave their marks,
\* one X and one O.
C10_Serialized ==
    /\ [](rendered = App(squares, xIsNext))
    /\ [][(MoveStep /\ squares[last'.i] = Null
              /\ calculateWinner(squares).winner = Null) =>
            /\ last'.outcome = "accepted"
            /\ squares'[last'.i] = IF xIsNext THEN "X" ELSE "O"]_vars
    /\ [][(AcceptedStep /\ last.op = "move" /\ last.outcome = "accepted"
              /\ last.i # last'.i) =>
            /\ squares[last.i] \in Marks
            /\ squares'[last.i] = squares[last.i]
            /\ squares'[last'.i] \in Marks
            /\ squares'[last'.i] # squares'[last.i]]_vars

\* requestMove(0) then requestMove(1): X on 0 and O on 1
C10_Witness ==
    /\ moves = 2
    /\ squares = [EmptyBoard EXCEPT ![0] = "X", ![1] = "O"]
    /\ last = [op |-> "move", i |-> 1, outcome |-> "accepted"]
    /\ rendered.squares = squares

\* C11: with no reset in between, a cell that holds a mark holds the same
\* mark in every later state.
C11_NeverOverwritten ==
    [][last'.op # "reset" =>
          \A k \in Cells : squares[k] \in Marks => squares'[k] = squares[k]]_vars

\* nine moves were accepted and all nine marks are on the board
C11_Witness ==
    /\ moves = 9
    /\ Full(squares)
    /\ last.op = "move"
    /\ last.outcome = "accepted"

\* the squares the board highlights
Highlighted == {i \in Cells : isWinning(rendered, i)}

StatusOf(m) == "Winner: " \o m

\* C12: status() is one of the five strings and a projection of the current
\* board and turn: "Winner: m" iff m has a complete Line, "Draw" iff the board
\* is full with no complete Line, otherwise "Next: m" with m the mark the
\* next accepted move places.
C12_StatusProjection ==
    /\ [](/\ status(rendered) \in
               {"Winner: X", "Winner: O", "Draw", "Next: X", "Next: O"}
          /\ \A m \in Marks :
                status(rendered) = StatusOf(m) <=>
                    \E k \in CompleteLines(squares) : squares[SpecLines[k][1]] = m
          /\ status(rendered) = "Draw" <=>
                (Full(squares) /\ CompleteLines(squares) = {})
          /\ (CompleteLines(squares) = {} /\ ~Full(squares)) =>
                status(rendered) = IF xIsNext THEN "Next: X" ELSE "Next: O")
    /\ [][AcceptedStep =>
            status(rendered) = "Next: " \o squares'[last'.i]]_vars

\* a win on the ninth move: the full board shows Winner: X, not Draw
C12_Witness ==
    /\ Full(squares)
    /\ moves = 9
    /\ status(rendered) = "Winner: X"

\* C13: the winning line handed to the board is non-empty exactly when the
\* verdict is Win; it is then one of the eight Lines, three distinct indices
\* whose cells all hold the winner's mark, and exactly those three squares
\* are highlighted; in Ongoing and Draw no square is highlighted.
C13_WinningLine ==
    /\ rendered.line # <<>> <=> Verdict(rendered) = "Win"
    /\ Verdict(rendered) = "Win" =>
          /\ \E k \in 1..8 : rendered.line = SpecLines[k]
          /\ Len(rendered.line) = 3
          /\ Cardinality(Highlighted) = 3
          /\ rendered.winner \in Marks
          /\ \A i \in Highlighted : squares[i] = rendered.winner
    /\ Verdict(rendered) # "Win" => Highlighted = {}

\* a won game highlights the three cells of the diagonal 2,4,6
C13_Witness ==
    /\ Verdict(rendered) = "Win"
    /\ Highlighted = {2, 4, 6}
    /\ last.outcome = "accepted"

\* C14: after a Win a requestMove on an empty cell changes nothing, and the
\* first requestMove(i) after a reset() is accepted and places X at i on an
\* otherwise empty board, for every i in 0..8.
C14_LockedUntilReset ==
    /\ [][(MoveStep /\ Verdict(rendered) = "Win" /\ squares[last'.i] = Null) =>
            /\ last'.outcome = "ignored"
            /\ UNCHANGED <<squares, xIsNext, rendered, moves>>]_vars
    /\ [][(MoveStep /\ last.op = "reset") =>
            /\ last'.outcome = "accepted"
            /\ squares' = [k \in Cells |-> IF k = last'.i THEN "X" ELSE Null]]_vars

\* the game was won, then reset, and the first click, on cell 8, placed X
C14_Witness ==
    /\ moves = 1
    /\ last = [op |-> "move", i |-> 8, outcome |-> "accepted"]
    /\ squares = [k \in Cells |-> IF k = 8 THEN "X" ELSE Null]
    /\ xIsNext = FALSE

\* the won game C14 starts from is a state the clicks 0,4,1,3,2 reach
C14_StartReached ==
    /\ squares = WonBoard
    /\ xIsNext = FALSE
    /\ rendered = App(WonBoard, FALSE)
    /\ last = [op |-> "move", i |-> 2, outcome |-> "accepted"]
    /\ moves = 5

\* The board after the first n moves of the sequence s, X moving first
BoardAfter(s, n) ==
    [k \in Cells |->
        IF \E j \in 1..n : s[j] = k
        THEN IF (CHOOSE j \in 1..n : s[j] = k) % 2 = 1 THEN "X" ELSE "O"
        ELSE Null]

\* In the game that has followed s for n moves, the request for s[n+1] is
\* accepted and leaves the board of n+1 moves
Follows(s, n) ==
    (squares = BoardAfter(s, n) /\ moves = n /\ MoveStep /\ last'.i = s[n + 1]) =>
        /\ last'.outcome = "accepted"
        /\ squares' = BoardAfter(s, n + 1)
        /\ moves' = n + 1

Scenario1 == <<0, 4, 1, 3, 2>>
Scenario2 == <<0, 1, 2, 3, 5, 4, 6, 8, 7>>

\* C15: from the initial state the moves 0,4,1,3,2 are all accepted, as
\* X,O,X,O,X; the verdict is Ongoing after each of the first four and
\* Win(X, line (0,1,2)) after the fifth, with X on cells 0,1,2.
C15_Scenario1 ==
    /\ squares = BoardAfter(Scenario1, 0) /\ moves = 0
    /\ [][\A n \in 0..4 :
            /\ Follows(Scenario1, n)
            /\ (squares = BoardAfter(Scenario1, n) /\ moves = n /\ MoveStep
                  /\ last'.i = Scenario1[n + 1]) =>
                 IF n < 4
                 THEN Verdict(rendered') = "Ongoing"
                 ELSE /\ Verdict(rendered') = "Win"
                      /\ rendered'.winner = "X"
                      /\ rendered'.line = <<0, 1, 2>>
                      /\ \A k \in {0, 1, 2} : squares'[k] = "X"]_vars

\* the fifth move of the scenario, on cell 2, has been accepted
C15_Witness ==
    /\ squares = BoardAfter(Scenario1, 5)
    /\ moves = 5
    /\ last = [op |-> "move", i |-> 2, outcome |-> "accepted"]
    /\ rendered.line = <<0, 1, 2>>

\* C16: from the initial state the moves 0,1,2,3,5,4,6,8,7 are all accepted,
\* no Line is complete after any of them, and the verdict is Ongoing after
\* each of the first eight and Draw after the ninth, on a full board.
C16_Scenario2 ==
    /\ squares = BoardAfter(Scenario2, 0) /\ moves = 0
    /\ [][\A n \in 0..8 :
            /\ Follows(Scenario2, n)
            /\ (squares = BoardAfter(Scenario2, n) /\ moves = n /\ MoveStep
                  /\ last'.i = Scenario2[n + 1]) =>
                 /\ CompleteLines(squares') = {}
                 /\ rendered'.winner = Null
                 /\ IF n < 8
                    THEN Verdict(rendered') = "Ongoing"
                    ELSE Verdict(rendered') = "Draw" /\ Full(squares')]_vars

\* the ninth move of the scenario, on cell 7, has been accepted
C16_Witness ==
    /\ squares = BoardAfter(Scenario2, 9)
    /\ moves = 9
    /\ last = [op |-> "move", i |-> 7, outcome |-> "accepted"]
    /\ rendered.isDraw

\* the number of cells of the board that hold mark m
Count(m) == Cardinality({k \in Cells : squares[k] = m})

\* C17: in every reachable state the number of X marks minus the number of
\* O marks is 0 or 1, and xIsNext is true exactly when the two are equal.
C17_MarkCount ==
    /\ Count("X") - Count("O") \in {0, 1}
    /\ xIsNext <=> Count("X") = Count("O")

\* a full board: five X, four O, and the turn flag on O
C17_Witness ==
    /\ Count("X") = 5
    /\ Count("O") = 4
    /\ xIsNext = FALSE

\* mark m has a complete Line
HasLine(m) == \E k \in CompleteLines(squares) : squares[SpecLines[k][1]] = m

\* C18: X and O never both have a complete Line; the move that produces a
\* Win placed the winner's mark on a cell of the reported Line, and as long
\* as the verdict is Win the winner is the mark that moved last.
C18_SingleWinner ==
    /\ [](~(HasLine("X") /\ HasLine("O")))
    /\ [](Verdict(rendered) = "Win" =>
            /\ rendered.winner = IF xIsNext THEN "O" ELSE "X"
            /\ HasLine(rendered.winner)
            /\ last.outcome = "accepted" =>
                  (squares[last.i] = rendered.winner /\ isWinning(rendered, last.i)))
    /\ [][(AcceptedStep /\ Verdict(rendered') = "Win") =>
            /\ Verdict(rendered) = "Ongoing"
            /\ rendered'.winner = squares'[last'.i]
            /\ isWinning(rendered', last'.i)]_vars

\* O completed a Line with the move just accepted
C18_Witness ==
    /\ Verdict(rendered) = "Win"
    /\ rendered.winner = "O"
    /\ last.op = "move"
    /\ last.outcome = "accepted"
    /\ squares[last.i] = "O"
    /\ isWinning(rendered, last.i)

\* C19: between two resets at most nine moves are accepted, a Win needs at
\* least five accepted moves and a Draw exactly nine; and when empty squares
\* keep being clicked, every game that is not reset reaches Win or Draw
\* (the verdict is not Ongoing, or a reset was the last request, again and
\* again).
C19_BoundedGame ==
    /\ [](moves <= 9)
    /\ [](Verdict(rendered) = "Win" => moves >= 5)
    /\ [](Verdict(rendered) = "Draw" => moves = 9)
    /\ [](Verdict(rendered) = "Ongoing" => moves < 9)
    /\ []<>(Verdict(rendered) # "Ongoing" \/ last.op = "reset")

\* a game drawn by its ninth accepted move
C19_Witness ==
    /\ Verdict(rendered) = "Draw"
    /\ moves = 9
    /\ last.op = "move"
    /\ last.outcome = "accepted"
    /\ Count("X") = 5

\* C20: a requestMove(i) on an Empty cell of an Ongoing game is accepted,
\* sets cell i to the mark of the current turn and leaves the other eight
\* cells and the length 9 as they were; the board the previous render holds
\* is not written.
C20_AcceptedMoveFrame ==
    [][(MoveStep /\ Verdict(rendered) = "Ongoing" /\ squares[last'.i] = Null) =>
          /\ last'.outcome = "accepted"
          /\ squares'[last'.i] = IF xIsNext THEN "X" ELSE "O"
          /\ \A k \in Cells \ {last'.i} : squares'[k] = squares[k]
          /\ DOMAIN squares' = 0..8
          /\ Length(squares') = 9
          /\ handleSquareClick(rendered, last'.i).closure = squares]_vars

\* X on 0, O on 1, then X accepted on 4: the two earlier marks are in place
C20_Witness ==
    /\ squares = [k \in Cells |-> IF k \in {0, 4} THEN "X"
                                  ELSE IF k = 1 THEN "O" ELSE Null]
    /\ last = [op |-> "move", i |-> 4, outcome |-> "accepted"]
    /\ Length(squares) = 9
    /\ moves = 3

====
